---- MODULE Spec2Model ----
(***************************************************************************)
(* Model of package pkcs12 (pkcs12sm.go): decoding of the SM2 private-key  *)
(* container.  Byte slices are sequences over 0..255, a Go string is the   *)
(* sequence of its bytes, a nil slice is the empty sequence (len = 0).     *)
(* Every function of the file is an operator that returns its results      *)
(* together with the calls it made to its collaborators (calls) and the    *)
(* way the process ended, if it did (exit).                                *)
(***************************************************************************)
EXTENDS Integers, Sequences, FiniteSets, TLC

VARIABLES pc, op, ret, calls, exit

vars == <<pc, op, ret, calls, exit>>

(* ---------------------------------------------------------------- bytes *)

Byte == 0..255

(* F applied to the value of x: x is evaluated once, where a LET would   *)
(* evaluate its definition again at every use                             *)
With(x, F(_)) == CHOOSE r \in {F(v) : v \in {x}} : TRUE

RECURSIVE Xor(_, _)
(* bitwise exclusive or of two naturals *)
Xor(a, b) ==
    IF a = 0 THEN b
    ELSE IF b = 0 THEN a
    ELSE (((a % 2) + (b % 2)) % 2) + 2 * Xor(a \div 2, b \div 2)

XorBytes(s, t) ==
    With(<<s, t>>, LAMBDA p : [i \in 1..Len(p[1]) |-> Xor(p[1][i], p[2][i])])

Repeat(b, n) == [i \in 1..n |-> b]

(* s[from:] in Go terms, from counted from 0 *)
SliceFrom(s, from) == SubSeq(s, from + 1, Len(s))

(* s[from:to] in Go terms *)
Slice(s, from, to) == SubSeq(s, from + 1, to)

(* ------------------------------------------------- values and errors *)

NilPtr == [type |-> "nil"]

NoErr == [type |-> "nil"]

(* errors.New(msg); the two messages of the file are given by code point *)
ErrorsNew(msg) == [type |-> "errors.errorString", msg |-> msg]

MsgTrailing == "go-pkcs12: trailing data found"

MsgWrongPassword == "U+5BC6 U+7801 U+9519 U+8BEF"

MsgFileFormat == "U+6587 U+4EF6 U+683C U+5F0F U+9519 U+8BEF"

(* how the process ends: it keeps running, log.Fatal exits it, or a      *)
(* failed type assertion / index out of range panics                      *)
Running == "running"

Fatal == "log.Fatal"

Panic == "panic"

(* ------------------------------------------------------------ sm3, sm4 *)

DigestLen == 32

BlockSize == 16

RECURSIVE Sm3Mix(_, _, _)
(* contribution of z[j..] to digest byte i *)
Sm3Mix(z, i, j) ==
    IF j > Len(z) THEN (i * 29 + 7) % 256
    ELSE (z[j] * (((i + j) % 13) + 1) + 3 * Sm3Mix(z, i, j + 1) + j) % 256

(* the hash primitive: a fixed-length digest of its input *)
Sm3Sum(z) == With(z, LAMBDA v : [i \in 1..DigestLen |-> Sm3Mix(v, i, 1)])

(* the block primitive on one 16-byte block, keyed, and its inverse *)
Sm4EncryptBlock(key, b) ==
    [i \in 1..BlockSize |-> (b[(i % BlockSize) + 1] + key[i] + i) % 256]

Sm4DecryptBlock(key, c) ==
    [i \in 1..BlockSize |->
        LET j == ((i + BlockSize - 2) % BlockSize) + 1
        IN  (c[j] + 512 - key[j] - j) % 256]

RECURSIVE CbcEncrypt(_, _, _)
CbcEncrypt(prev, key, in) ==
    IF Len(in) = 0 THEN <<>>
    ELSE With(Sm4EncryptBlock(key, XorBytes(SubSeq(in, 1, BlockSize), prev)),
              LAMBDA c : c \o CbcEncrypt(c, key, SubSeq(in, BlockSize + 1, Len(in))))

RECURSIVE CbcDecrypt(_, _, _)
CbcDecrypt(prev, key, in) ==
    IF Len(in) = 0 THEN <<>>
    ELSE With(SubSeq(in, 1, BlockSize),
              LAMBDA c : XorBytes(Sm4DecryptBlock(key, c), prev)
                             \o CbcDecrypt(c, key, SubSeq(in, BlockSize + 1, Len(in))))

(* sm4.Init(iv, key).Sm4Cbc(in, mode): raw CBC over whole blocks, mode    *)
(* TRUE encrypts and FALSE decrypts; input that is not a whole number of  *)
(* blocks is a structural error                                           *)
Sm4Cbc(iv, key, in, mode) ==
    With(<<iv, key, in>>, LAMBDA a :
        IF Len(a[3]) % BlockSize # 0
        THEN [out |-> <<>>, err |-> [type |-> "sm4.error", msg |-> "input not full blocks"]]
        ELSE [out |-> IF mode THEN CbcEncrypt(a[1], a[2], a[3])
                      ELSE CbcDecrypt(a[1], a[2], a[3]),
              err |-> NoErr])

(* ------------------------------------------------------------- base64 *)

(* the value of a character of the standard alphabet, -1 for any other *)
B64Value(c) ==
    IF c >= 65 /\ c <= 90 THEN c - 65
    ELSE IF c >= 97 /\ c <= 122 THEN c - 71
    ELSE IF c >= 48 /\ c <= 57 THEN c + 4
    ELSE IF c = 43 THEN 62
    ELSE IF c = 47 THEN 63
    ELSE -1

B64Corrupt == [type |-> "base64.CorruptInputError"]

RECURSIVE B64SkipNewlines(_, _)
B64SkipNewlines(src, si) ==
    IF si < Len(src) /\ src[si + 1] \in {10, 13}
    THEN B64SkipNewlines(src, si + 1) ELSE si

RECURSIVE B64Quantum(_, _, _)
(* reads one quantum of up to four characters from src[si:]; vals are the *)
(* six-bit values read so far                                             *)
B64Quantum(src, si, vals) ==
    IF Len(vals) = 4 THEN [st |-> "full", vals |-> vals, si |-> si]
    ELSE IF si = Len(src)
    THEN IF Len(vals) = 0 THEN [st |-> "end", vals |-> vals, si |-> si]
         ELSE [st |-> "err", vals |-> vals, si |-> si]
    ELSE LET c == src[si + 1] IN
         IF B64Value(c) # -1 THEN B64Quantum(src, si + 1, Append(vals, B64Value(c)))
         ELSE IF c \in {10, 13} THEN B64Quantum(src, si + 1, vals)
         ELSE IF c # 61 \/ Len(vals) < 2 THEN [st |-> "err", vals |-> vals, si |-> si]
         ELSE LET s1 == B64SkipNewlines(src, si + 1) IN
              IF Len(vals) = 3
              THEN IF s1 < Len(src) THEN [st |-> "err", vals |-> vals, si |-> si]
                   ELSE [st |-> "pad", vals |-> vals, si |-> s1]
              ELSE IF s1 = Len(src) \/ src[s1 + 1] # 61
                   THEN [st |-> "err", vals |-> vals, si |-> si]
                   ELSE LET s2 == B64SkipNewlines(src, s1 + 1) IN
                        IF s2 < Len(src) THEN [st |-> "err", vals |-> vals, si |-> si]
                        ELSE [st |-> "pad", vals |-> vals, si |-> s2]

(* the bytes of a quantum of dlen values *)
B64Bytes(vals) ==
    LET v(i) == IF i <= Len(vals) THEN vals[i] ELSE 0
        n == v(1) * 262144 + v(2) * 4096 + v(3) * 64 + v(4)
    IN  SubSeq(<<n \div 65536, (n \div 256) % 256, n % 256>>, 1, Len(vals) - 1)

RECURSIVE B64DecodeFrom(_, _, _)
B64DecodeFrom(src, si, acc) ==
    With(<<B64Quantum(src, si, <<>>), acc>>, LAMBDA p :
        LET q == p[1] IN
        IF q.st = "err" THEN [out |-> p[2], err |-> B64Corrupt]
        ELSE IF q.st = "end" THEN [out |-> p[2], err |-> NoErr]
        ELSE IF q.st = "pad" THEN [out |-> p[2] \o B64Bytes(q.vals), err |-> NoErr]
        ELSE B64DecodeFrom(src, q.si, p[2] \o B64Bytes(q.vals)))

(* base64.StdEncoding.DecodeString(string(data)): the bytes decoded and   *)
(* the error (the offset a CorruptInputError carries is left out)         *)
B64DecodeString(src) == B64DecodeFrom(src, 0, <<>>)

(* base64.StdEncoding.Decode(dst, src): dst after the call *)
B64DecodeInto(dst, src) ==
    With(B64DecodeString(src).out, LAMBDA d : d \o SubSeq(dst, Len(d) + 1, Len(dst)))

(* ---------------------------------------------------------------- KDF *)

(* KDF with the counter starting at 0 *)
KDF_CounterZero(z) ==
    LET ct == <<0, 0, 0, 0>> IN
    With(Sm3Sum(z \o ct), LAMBDA h :
        [out |-> h,
         calls |-> <<[fn |-> "sm3.New"],
                     [fn |-> "sm3.Write", in |-> z],
                     [fn |-> "sm3.Write", in |-> ct],
                     [fn |-> "sm3.Sum", out |-> h]>>])

(* func KDF(z []byte) []byte *)
KDF(z) ==
    LET ct == <<0, 0, 0, 1>> IN
    With(Sm3Sum(z \o ct), LAMBDA h :
        [out |-> h,
         calls |-> <<[fn |-> "sm3.New"],
                     [fn |-> "sm3.Write", in |-> z],
                     [fn |-> "sm3.Write", in |-> ct],
                     [fn |-> "sm3.Sum", out |-> h]>>])

(* ------------------------------------------------------ DecryptSm2Key *)

MinKeyLen == 32

MaxKeyLen == 64

PaddedKeyLen == 48

IvLen == 16

(* the length test without its upper limit *)
ValidKeyLen_NoUpper(encryptedData) == Len(encryptedData) >= MinKeyLen

(* the length test that guards the decryption *)
ValidKeyLen(encryptedData) ==
    Len(encryptedData) >= MinKeyLen /\ Len(encryptedData) <= MaxKeyLen

(* the two windows of the digest taken the other way round *)
KeyMaterial_Swapped(h) == [iv |-> SliceFrom(h, IvLen), key |-> Slice(h, 0, IvLen)]

(* iv := h[:16]; key := h[16:] *)
KeyMaterial(h) == [iv |-> Slice(h, 0, IvLen), key |-> SliceFrom(h, IvLen)]

(* func DecryptSm2Key(password string, encryptedData []byte) []byte *)
DecryptSm2Key(password, encryptedData) ==
    IF ValidKeyLen(encryptedData)
    THEN With(KDF(password), LAMBDA k :
         LET n == Len(encryptedData)
             decode == n # MinKeyLen /\ n # PaddedKeyLen
             buf == IF decode THEN B64DecodeInto(Repeat(0, n), encryptedData)
                    ELSE Repeat(0, n)
             encoding == encryptedData
             h == k.out
             iv == KeyMaterial(h).iv
             key == KeyMaterial(h).key
             made == (IF decode THEN <<[fn |-> "base64.Decode", in |-> encryptedData,
                                        out |-> buf]>>
                      ELSE <<>>)
                     \o k.calls
                     \o <<[fn |-> "sm4.Init", iv |-> iv, key |-> key]>>
         IN  With(Sm4Cbc(iv, key, encoding, FALSE), LAMBDA r :
             LET c == Append(made, [fn |-> "sm4.Sm4Cbc", in |-> encoding, mode |-> FALSE,
                                    out |-> r.out, err |-> r.err])
             IN  IF r.err # NoErr
                 THEN [out |-> <<>>, calls |-> Append(c, [fn |-> "log.Fatal", err |-> r.err]),
                       exit |-> Fatal]
                 ELSE [out |-> r.out, calls |-> c, exit |-> Running]))
    ELSE [out |-> <<>>, calls |-> <<>>, exit |-> Running]

(* ------------------------------------------------------ encoding/asn1 *)

Asn1Syntax(msg) == [type |-> "asn1.SyntaxError", msg |-> msg]

Asn1Structural(msg) == [type |-> "asn1.StructuralError", msg |-> msg]

TagInteger == 2

TagOID == 6

TagSequence == 16

RECURSIVE ParseBase128Int(_, _, _, _)
(* parseBase128Int from bytes[offset:], shifted groups read so far *)
ParseBase128Int(bytes, offset, shifted, val) ==
    IF offset >= Len(bytes)
    THEN [err |-> Asn1Syntax("truncated base 128 integer"), ret |-> 0, offset |-> offset]
    ELSE IF shifted = 5
    THEN [err |-> Asn1Structural("base 128 integer too large"), ret |-> 0, offset |-> offset]
    ELSE LET b == bytes[offset + 1] IN
         IF shifted = 0 /\ b = 128
         THEN [err |-> Asn1Syntax("integer is not minimally encoded"), ret |-> 0,
               offset |-> offset]
         ELSE IF shifted = 4 /\ val >= 16777216
         THEN (* the value no longer fits 31 bits *)
              IF b < 128 \/ offset + 1 < Len(bytes)
              THEN [err |-> Asn1Structural("base 128 integer too large"), ret |-> 0,
                    offset |-> offset + 1]
              ELSE [err |-> Asn1Syntax("truncated base 128 integer"), ret |-> 0,
                    offset |-> offset + 1]
         ELSE IF b < 128
         THEN [err |-> NoErr, ret |-> val * 128 + b, offset |-> offset + 1]
         ELSE ParseBase128Int(bytes, offset + 1, shifted + 1, val * 128 + (b % 128))

RECURSIVE ParseLength(_, _, _, _)
(* the long form of a length: numBytes bytes still to read *)
ParseLength(bytes, offset, numBytes, length) ==
    IF numBytes = 0
    THEN IF length < 128
         THEN [err |-> Asn1Structural("non-minimal length"), length |-> length,
               offset |-> offset]
         ELSE [err |-> NoErr, length |-> length, offset |-> offset]
    ELSE IF offset >= Len(bytes)
    THEN [err |-> Asn1Syntax("truncated tag or length"), length |-> 0, offset |-> offset]
    ELSE IF length >= 8388608
    THEN [err |-> Asn1Structural("length too large"), length |-> 0, offset |-> offset + 1]
    ELSE IF length * 256 + bytes[offset + 1] = 0
    THEN [err |-> Asn1Structural("superfluous leading zeros in length"), length |-> 0,
          offset |-> offset + 1]
    ELSE ParseLength(bytes, offset + 1, numBytes - 1, length * 256 + bytes[offset + 1])

(* parseTagAndLength(bytes, initOffset), called with initOffset < len(bytes) *)
ParseTagAndLength(bytes, initOffset) ==
    LET b == bytes[initOffset + 1]
        class == b \div 64
        isCompound == (b \div 32) % 2 = 1
        bad(e, o) == [err |-> e, class |-> class, isCompound |-> isCompound, tag |-> 0,
                      length |-> 0, offset |-> o]
    IN  With(IF b % 32 = 31 THEN ParseBase128Int(bytes, initOffset + 1, 0, 0)
             ELSE [err |-> NoErr, ret |-> b % 32, offset |-> initOffset + 1],
        LAMBDA long :
        IF long.err # NoErr THEN bad(long.err, long.offset)
        ELSE IF b % 32 = 31 /\ long.ret < 31
        THEN bad(Asn1Syntax("non-minimal tag"), long.offset)
        ELSE IF long.offset >= Len(bytes)
        THEN bad(Asn1Syntax("truncated tag or length"), long.offset)
        ELSE LET l == bytes[long.offset + 1] IN
             With(IF l < 128
                  THEN [err |-> NoErr, length |-> l, offset |-> long.offset + 1]
                  ELSE IF l = 128
                  THEN [err |-> Asn1Syntax("indefinite length found (not DER)"),
                        length |-> 0, offset |-> long.offset + 1]
                  ELSE ParseLength(bytes, long.offset + 1, l % 128, 0),
             LAMBDA len :
                 [err |-> len.err, class |-> class, isCompound |-> isCompound,
                  tag |-> long.ret, length |-> len.length, offset |-> len.offset]))

(* parseField up to the point where the value's own bytes are cut out:    *)
(* matchAny for a RawValue, else the universal tag and compoundness the   *)
(* field's type expects                                                   *)
ParseHeader(bytes, initOffset, matchAny, expectedTag, compoundType) ==
    LET none == [err |-> NoErr, inner |-> <<>>, offset |-> initOffset] IN
    IF initOffset = Len(bytes)
    THEN [none EXCEPT !.err = Asn1Syntax("sequence truncated")]
    ELSE With(ParseTagAndLength(bytes, initOffset), LAMBDA t :
         IF t.err # NoErr THEN [none EXCEPT !.err = t.err]
         ELSE IF ~matchAny /\ (t.class # 0 \/ t.tag # expectedTag
                                \/ t.isCompound # compoundType)
         THEN [none EXCEPT !.err = Asn1Structural("tags don't match")]
         ELSE IF t.length > Len(bytes) - t.offset
         THEN [none EXCEPT !.err = Asn1Syntax("data truncated")]
         ELSE [err |-> NoErr, inner |-> Slice(bytes, t.offset, t.offset + t.length),
               offset |-> t.offset + t.length])

(* checkInteger and the width check of parseInt64 *)
CheckInt64(inner) ==
    IF Len(inner) = 0 THEN Asn1Structural("empty integer")
    ELSE IF Len(inner) > 1 /\ ((inner[1] = 0 /\ inner[2] < 128)
                               \/ (inner[1] = 255 /\ inner[2] >= 128))
    THEN Asn1Structural("integer not minimally-encoded")
    ELSE IF Len(inner) > 8 THEN Asn1Structural("integer too large")
    ELSE NoErr

RECURSIVE CheckOIDFrom(_, _)
CheckOIDFrom(inner, offset) ==
    IF offset >= Len(inner) THEN NoErr
    ELSE With(ParseBase128Int(inner, offset, 0, 0), LAMBDA v :
         IF v.err # NoErr THEN v.err ELSE CheckOIDFrom(inner, v.offset))

(* parseObjectIdentifier: the error, the arcs themselves are never read *)
CheckOID(inner) ==
    IF Len(inner) = 0 THEN Asn1Syntax("zero length OBJECT IDENTIFIER")
    ELSE CheckOIDFrom(inner, 0)

(* an int field; the content octets stand for the value *)
ParseInt(bytes, offset) ==
    With(ParseHeader(bytes, offset, FALSE, TagInteger, FALSE), LAMBDA h :
        IF h.err # NoErr THEN h ELSE [h EXCEPT !.err = CheckInt64(h.inner)])

(* an asn1.ObjectIdentifier field *)
ParseOID(bytes, offset) ==
    With(ParseHeader(bytes, offset, FALSE, TagOID, FALSE), LAMBDA h :
        IF h.err # NoErr THEN h ELSE [h EXCEPT !.err = CheckOID(h.inner)])

(* an asn1.RawValue field: inner is RawValue.Bytes *)
ParseRaw(bytes, offset) == ParseHeader(bytes, offset, TRUE, 0, FALSE)

(* type privateKeyContent struct { OID1, OID2, Content } *)
privateKeyContent(bytes, offset) ==
    LET bad(e) == [err |-> e, Content |-> <<>>, offset |-> offset] IN
    With(ParseHeader(bytes, offset, FALSE, TagSequence, TRUE), LAMBDA s :
    IF s.err # NoErr THEN bad(s.err) ELSE
    With(ParseOID(s.inner, 0), LAMBDA o1 :
    IF o1.err # NoErr THEN bad(o1.err) ELSE
    With(ParseOID(s.inner, o1.offset), LAMBDA o2 :
    IF o2.err # NoErr THEN bad(o2.err) ELSE
    With(ParseRaw(s.inner, o2.offset), LAMBDA c :
    IF c.err # NoErr THEN bad(c.err)
    ELSE [err |-> NoErr, Content |-> c.inner, offset |-> s.offset]))))

(* type publicKeyContent struct { OID, Content } *)
publicKeyContent(bytes, offset) ==
    LET bad(e) == [err |-> e, Content |-> <<>>, offset |-> offset] IN
    With(ParseHeader(bytes, offset, FALSE, TagSequence, TRUE), LAMBDA s :
    IF s.err # NoErr THEN bad(s.err) ELSE
    With(ParseOID(s.inner, 0), LAMBDA o :
    IF o.err # NoErr THEN bad(o.err) ELSE
    With(ParseRaw(s.inner, o.offset), LAMBDA c :
    IF c.err # NoErr THEN bad(c.err)
    ELSE [err |-> NoErr, Content |-> c.inner, offset |-> s.offset])))

(* type smPdu struct { Version, PrivContent, PubContent }; bytes that     *)
(* follow the last field inside a SEQUENCE are accepted                   *)
smPdu(bytes, offset) ==
    LET bad(e) == [err |-> e, Version |-> <<>>, PrivContent |-> <<>>, PubContent |-> <<>>,
                   offset |-> offset] IN
    With(ParseHeader(bytes, offset, FALSE, TagSequence, TRUE), LAMBDA s :
    IF s.err # NoErr THEN bad(s.err) ELSE
    With(ParseInt(s.inner, 0), LAMBDA v :
    IF v.err # NoErr THEN bad(v.err) ELSE
    With(privateKeyContent(s.inner, v.offset), LAMBDA priv :
    IF priv.err # NoErr THEN bad(priv.err) ELSE
    With(publicKeyContent(s.inner, priv.offset), LAMBDA pub :
    IF pub.err # NoErr THEN bad(pub.err)
    ELSE [err |-> NoErr, Version |-> v.inner, PrivContent |-> priv.Content,
          PubContent |-> pub.Content, offset |-> s.offset]))))

(* asn1.Unmarshal(smData, sm): the structure, the bytes after it, the error *)
Unmarshal(b) ==
    With(smPdu(b, 0), LAMBDA sm :
        [sm |-> sm, trailing |-> IF sm.err = NoErr THEN SliceFrom(b, sm.offset) ELSE <<>>,
         err |-> sm.err])

(* ------------------------------------------------- x509, big, pkcs12 *)

AlgSm2 == 1

AlgEcdsa == 2

AlgRsa == 3

CertLen == 5

(* x509.ParseCertificate(der): a certificate is the five bytes            *)
(* 30 03 alg x y; its PublicKey is an *sm2.PublicKey, an *ecdsa.PublicKey *)
(* or an *rsa.PublicKey after alg                                         *)
ParseCertificate(der) ==
    IF Len(der) = CertLen /\ der[1] = 48 /\ der[2] = 3
       /\ der[3] \in {AlgSm2, AlgEcdsa, AlgRsa}
    THEN [cer |-> [type |-> "*x509.Certificate", Raw |-> der,
                   PublicKey |-> [type |-> IF der[3] = AlgSm2 THEN "*sm2.PublicKey"
                                           ELSE IF der[3] = AlgEcdsa THEN "*ecdsa.PublicKey"
                                           ELSE "*rsa.PublicKey",
                                  X |-> der[4], Y |-> der[5]]],
          err |-> NoErr]
    ELSE [cer |-> NilPtr, err |-> [type |-> "x509.error", msg |-> "malformed certificate"]]

RECURSIVE SetBytes(_)
(* new(big.Int).SetBytes(buf): buf read as a big-endian unsigned integer, *)
(* held as its base-256 digits without leading zeros                      *)
SetBytes(buf) ==
    IF Len(buf) > 0 /\ buf[1] = 0 THEN SetBytes(Tail(buf)) ELSE buf

(* pkcs12.ErrIncorrectPassword, pkcs12.ErrDecryption, NotImplementedError *)
ErrIncorrectPassword ==
    [type |-> "errors.errorString",
     msg |-> "pkcs12: decryption password incorrect"]

ErrDecryption ==
    [type |-> "errors.errorString",
     msg |-> "pkcs12: decryption error, incorrect padding"]

ErrNotImplemented ==
    [type |-> "pkcs12.NotImplementedError",
     msg |-> "expected exactly two safe bags in the PFX PDU"]

(* errors.Is(err, target) for errors that wrap nothing *)
ErrorsIs(err, target) == err = target

(* x509.ParsePKCS1PrivateKey(der): a key is the three bytes 30 01 d *)
ParsePKCS1PrivateKey(der) ==
    IF Len(der) = 3 /\ der[1] = 48 /\ der[2] = 1
    THEN [key |-> [type |-> "*rsa.PrivateKey", D |-> der[3]], err |-> NoErr]
    ELSE [key |-> NilPtr, err |-> Asn1Structural("tags don't match")]

(* what pkcs12.ToPEM(data, password) may give back: an error and no       *)
(* blocks, or no error and a list of PEM blocks that may be empty         *)
LegacyOutcomes ==
    {[blocks |-> <<>>, err |-> e] : e \in {ErrIncorrectPassword, ErrDecryption,
                                           ErrNotImplemented}}
    \cup {[blocks |-> b, err |-> NoErr] :
            b \in {<<>>, <<[Type |-> "PRIVATE KEY", Bytes |-> <<48, 1, 7>>]>>,
                   <<[Type |-> "CERTIFICATE", Bytes |-> <<48, 3, 1, 2, 3>>],
                     [Type |-> "PRIVATE KEY", Bytes |-> <<48, 1, 7>>]>>}}

(* ---------------------------------------------------------- DecodeSm2 *)

(* the check for trailing data left out *)
TrailingFound_Never(trailing) == FALSE

(* len(trailing) != 0 *)
TrailingFound(trailing) == Len(trailing) # 0

(* the scalar read with the least significant byte first *)
NewPrivateKey_LittleEndian(pub, dBytes) ==
    [type |-> "*sm2.PrivateKey", PublicKey |-> pub,
     D |-> SetBytes([i \in 1..Len(dBytes) |-> dBytes[Len(dBytes) + 1 - i]])]

(* &sm2.PrivateKey{PublicKey: *pub, D: new(big.Int).SetBytes(dBytes)} *)
NewPrivateKey(pub, dBytes) ==
    [type |-> "*sm2.PrivateKey", PublicKey |-> pub, D |-> SetBytes(dBytes)]

(* func DecodeSm2(smData []byte, password string)                         *)
(*     (privateKey *sm2.PrivateKey, certificate *x509.Certificate, err)   *)
DecodeSm2(smData, password) ==
    LET c0 == <<[fn |-> "asn1.Unmarshal", in |-> smData]>>
        fail(e, made) == [privateKey |-> NilPtr, certificate |-> NilPtr, err |-> e,
                          calls |-> made, exit |-> Running]
        stop(how, made) == [privateKey |-> NilPtr, certificate |-> NilPtr, err |-> NoErr,
                            calls |-> made, exit |-> how]
    IN  With(Unmarshal(smData), LAMBDA u :
        IF u.err # NoErr THEN fail(u.err, c0)
        ELSE IF TrailingFound(u.trailing) THEN fail(ErrorsNew(MsgTrailing), c0)
        ELSE With(DecryptSm2Key(password, u.sm.PrivContent), LAMBDA d :
             LET dBytes == d.out
                 c1 == c0 \o d.calls
             IN  IF d.exit # Running THEN stop(d.exit, c1)
                 ELSE IF Len(dBytes) = 0 THEN fail(ErrorsNew(MsgWrongPassword), c1)
                 ELSE With(ParseCertificate(u.sm.PubContent), LAMBDA p :
                      LET cer == p.cer
                          c2 == Append(c1, [fn |-> "x509.ParseCertificate",
                                            in |-> u.sm.PubContent])
                      IN  IF p.err # NoErr
                          THEN stop(Fatal, Append(c2, [fn |-> "log.Fatal", err |-> p.err]))
                          ELSE IF cer.PublicKey.type # "*sm2.PublicKey"
                          THEN stop(Panic, c2)
                          ELSE [privateKey |-> NewPrivateKey(cer.PublicKey, dBytes),
                                certificate |-> cer, err |-> NoErr,
                                calls |-> c2, exit |-> Running])))

(* --------------------------------------------- GetPrivateKeyFromBytes *)

(* a value of type interface{}: the dynamic type and the value; the nil   *)
(* interface has neither, and a nil pointer put into an interface keeps   *)
(* its type, so that the interface itself is not nil                      *)
NilIface == [dyn |-> "nil", val |-> NilPtr]

Iface(dyn, v) == [dyn |-> dyn, val |-> v]

(* every hint that is not ".sm2" taken for the legacy format *)
Format_GuessLegacy(ext) == IF ext = ".sm2" THEN "sm2" ELSE "pfx"

(* the branch the format hint selects *)
Format(ext) ==
    IF ext = ".sm2" THEN "sm2" ELSE IF ext = ".pfx" THEN "pfx" ELSE "unsupported"

(* every error of pkcs12.ToPEM handed on as it is *)
LegacyError_PassThrough(err) == err

(* the error returned for an error of pkcs12.ToPEM *)
LegacyError(err) ==
    IF ErrorsIs(err, ErrIncorrectPassword) THEN ErrorsNew(MsgWrongPassword) ELSE err

(* func GetPrivateKeyFromBytes(data []byte, ext, password string)         *)
(*     (interface{}, error); legacy is what pkcs12.ToPEM gives back       *)
GetPrivateKeyFromBytes(data, ext, password, legacy) ==
    IF Format(ext) = "sm2"
    THEN LET c0 == <<[fn |-> "base64.DecodeString", in |-> data]>> IN
         With(B64DecodeString(data), LAMBDA b :
             IF b.err # NoErr
             THEN [key |-> NilIface, err |-> b.err, calls |-> c0, exit |-> Running]
             ELSE With(DecodeSm2(b.out, password), LAMBDA r :
                      [key |-> Iface("*sm2.PrivateKey", r.privateKey), err |-> r.err,
                       calls |-> c0 \o r.calls, exit |-> r.exit]))
    ELSE IF Format(ext) = "pfx"
    THEN LET blocks == legacy.blocks
             c0 == <<[fn |-> "pkcs12.ToPEM", in |-> data, password |-> password,
                      out |-> legacy]>>
         IN  IF legacy.err # NoErr
             THEN IF ErrorsIs(legacy.err, ErrIncorrectPassword)
                  THEN [key |-> NilIface, err |-> LegacyError(legacy.err),
                        calls |-> c0, exit |-> Running]
                  ELSE [key |-> NilIface, err |-> LegacyError(legacy.err),
                        calls |-> Append(c0, [fn |-> "log.Println", err |-> legacy.err]),
                        exit |-> Running]
             ELSE IF Len(blocks) = 0
             THEN [key |-> NilIface, err |-> NoErr, calls |-> c0, exit |-> Panic]
             ELSE LET c1 == Append(c0, [fn |-> "x509.ParsePKCS1PrivateKey",
                                        in |-> blocks[1].Bytes]) IN
                  With(ParsePKCS1PrivateKey(blocks[1].Bytes), LAMBDA k :
                      IF k.err # NoErr
                      THEN [key |-> NilIface, err |-> k.err, calls |-> c1, exit |-> Running]
                      ELSE [key |-> Iface("*rsa.PrivateKey", k.key), err |-> NoErr,
                            calls |-> c1, exit |-> Running])
    ELSE [key |-> NilIface, err |-> ErrorsNew(MsgFileFormat), calls |-> <<>>,
          exit |-> Running]

(* ------------------------------------------------------------- inputs *)

MaxBlobLen == 66

(* passwords as Go strings: "", "test123" and the three UTF-8 bytes of U+5BC6 *)
PwEmpty == <<>>

PwTest == <<116, 101, 115, 116, 49, 50, 51>>

PwHan == <<229, 175, 134>>

Passwords == {PwEmpty, PwTest, PwHan}

MaxSeed == 2

(* 32-byte scalars: 01 repeated, the number one, and mixed ones *)
Scalars ==
    {Repeat(1, 32), [i \in 1..32 |-> i \div 32]}
    \cup {[i \in 1..32 |-> (i * 37 * k + k) % 256] : k \in 1..MaxSeed}

(* PKCS#7 padding of a scalar to 48 bytes *)
Padded(plain) == plain \o Repeat(16, 16)

(* the fixture: plain encrypted under the key material of password *)
FixtureEncrypt(password, plain) ==
    LET h == KDF(password).out
    IN  Sm4Cbc(SubSeq(h, 1, 16), SubSeq(h, 17, Len(h)), plain, TRUE).out

B64Char(v) ==
    IF v < 26 THEN v + 65
    ELSE IF v < 52 THEN v + 71
    ELSE IF v < 62 THEN v - 4
    ELSE IF v = 62 THEN 43 ELSE 47

RECURSIVE B64EncodeToString(_)
B64EncodeToString(b) ==
    IF Len(b) = 0 THEN <<>>
    ELSE LET v(i) == IF i <= Len(b) THEN b[i] ELSE 0
             n == v(1) * 65536 + v(2) * 256 + v(3)
             q == <<B64Char(n \div 262144), B64Char((n \div 4096) % 64),
                    IF Len(b) > 1 THEN B64Char((n \div 64) % 64) ELSE 61,
                    IF Len(b) > 2 THEN B64Char(n % 64) ELSE 61>>
         IN  q \o B64EncodeToString(SubSeq(b, 4, Len(b)))

PatternBlob(n) == [i \in 1..n |-> (7 * i + 1) % 256]

FixtureBlobs ==
    {FixtureEncrypt(pw, s) : pw \in Passwords, s \in Scalars}
    \cup {FixtureEncrypt(PwTest, Padded(s)) : s \in Scalars}

(* the blobs handed to DecryptSm2Key: every length up to MaxBlobLen, the  *)
(* fixtures' ciphertexts, and those ciphertexts written in base64         *)
Blobs ==
    {PatternBlob(n) : n \in 0..MaxBlobLen}
    \cup FixtureBlobs
    \cup {B64EncodeToString(b) : b \in FixtureBlobs}

DerLength(n) ==
    IF n < 128 THEN <<n>>
    ELSE IF n < 256 THEN <<129, n>>
    ELSE <<130, n \div 256, n % 256>>

Tlv(tag, content) == <<tag>> \o DerLength(Len(content)) \o content

(* 1.2.156.10197.6.1.4.2.1 and 1.2.156.10197.1.104 *)
OidSm2Data == <<42, 129, 28, 207, 85, 6, 1, 4, 2, 1>>

OidSm4Cbc == <<42, 129, 28, 207, 85, 1, 104>>

(* the container of a version, an encrypted blob and a certificate, with  *)
(* extra bytes after the public-key record inside the outer SEQUENCE      *)
Container(version, blob, cert, extra) ==
    Tlv(48, Tlv(2, version)
            \o Tlv(48, Tlv(6, OidSm2Data) \o Tlv(6, OidSm4Cbc) \o Tlv(4, blob))
            \o Tlv(48, Tlv(6, OidSm2Data) \o Tlv(4, cert))
            \o extra)

Certs == {<<48, 3, AlgSm2, 9, 4>>, <<48, 3, AlgEcdsa, 9, 4>>, <<48, 3, AlgRsa, 9, 4>>,
          <<48, 3, 0, 9, 4>>, <<>>}

ContainerBlobs ==
    {PatternBlob(n) : n \in {0, 31, 32, 33, 48, 64, 65, MaxBlobLen}}
    \cup {FixtureEncrypt(PwTest, s) : s \in {Repeat(1, 32), [i \in 1..32 |-> i \div 32]}}
    \cup {B64EncodeToString(FixtureEncrypt(PwTest, Padded(Repeat(1, 32))))}

WellFormed ==
    {Container(<<1>>, b, c, x) : b \in ContainerBlobs, c \in Certs, x \in {<<>>, <<5, 0>>}}

(* buffers that are no container: cut short, wrong tags, lengths and      *)
(* integers that are not minimal, an empty buffer                         *)
Malformed ==
    LET good == Container(<<1>>, PatternBlob(32), <<48, 3, AlgSm2, 9, 4>>, <<>>)
    IN  {<<>>, <<48>>, <<48, 128>>, <<49, 0>>, <<48, 0>>, <<48, 129, 5, 2, 1, 1, 48, 0>>,
         SubSeq(good, 1, Len(good) - 1),
         [good EXCEPT ![1] = 16],
         Container(<<0, 1>>, PatternBlob(32), <<48, 3, AlgSm2, 9, 4>>, <<>>),
         Container(<<>>, PatternBlob(32), <<48, 3, AlgSm2, 9, 4>>, <<>>),
         Tlv(48, Tlv(2, <<1>>) \o Tlv(48, Tlv(6, <<128, 1>>))),
         Tlv(48, Tlv(2, <<1>>) \o Tlv(48, Tlv(6, <<>>))),
         Tlv(48, Tlv(2, <<1>>) \o Tlv(48, Tlv(6, OidSm2Data) \o Tlv(6, OidSm4Cbc))),
         Tlv(48, Tlv(2, <<1>>)
                 \o Tlv(48, Tlv(6, OidSm2Data) \o Tlv(6, OidSm4Cbc) \o Tlv(4, PatternBlob(32))))}

ExtraBytes == {0, 48}

SmDatas ==
    WellFormed \cup Malformed \cup {Append(d, x) : d \in WellFormed, x \in ExtraBytes}

Exts == {".sm2", ".pfx", ".xyz", "", ".SM2", ".p12", "sm2", ".pfx "}

(* what a caller hands to GetPrivateKeyFromBytes: containers in base64,   *)
(* text that is not base64, a raw buffer                                  *)
Datas ==
    {B64EncodeToString(d) :
        d \in {Container(<<1>>, b, c, <<>>) :
                 b \in {PatternBlob(31), PatternBlob(33), FixtureEncrypt(PwTest, Repeat(1, 32))},
                 c \in Certs}
              \cup {Append(Container(<<1>>, PatternBlob(32), <<48, 3, AlgSm2, 9, 4>>, <<>>), 0),
                    <<48, 0>>}}
    \cup {<<33, 33, 33, 33>>, <<65, 65, 65>>, <<48, 130, 1, 2>>}

(* ------------------------------------------------------ state machine *)

NoOp == [fn |-> "none"]

NoRet == [none |-> TRUE]

Init ==
    /\ pc = "idle"
    /\ op = NoOp
    /\ ret = NoRet
    /\ calls = <<>>
    /\ exit = Running

(* a call of KDF(z) by a user of the package *)
CallKDF(z) ==
    /\ pc = "idle"
    /\ \E r \in {KDF(z)} :
       /\ op' = [fn |-> "KDF", z |-> z]
       /\ ret' = [out |-> r.out]
       /\ calls' = r.calls
       /\ exit' = Running
       /\ pc' = "returned"

CallDecryptSm2Key(password, encryptedData) ==
    /\ pc = "idle"
    /\ \E r \in {DecryptSm2Key(password, encryptedData)} :
       /\ op' = [fn |-> "DecryptSm2Key", password |-> password,
                 encryptedData |-> encryptedData]
       /\ ret' = IF r.exit = Running THEN [out |-> r.out] ELSE NoRet
       /\ calls' = r.calls
       /\ exit' = r.exit
       /\ pc' = IF r.exit = Running THEN "returned" ELSE "exited"

CallDecodeSm2(smData, password) ==
    /\ pc = "idle"
    /\ \E r \in {DecodeSm2(smData, password)} :
       /\ op' = [fn |-> "DecodeSm2", smData |-> smData, password |-> password]
       /\ ret' = IF r.exit = Running
                 THEN [privateKey |-> r.privateKey, certificate |-> r.certificate,
                       err |-> r.err]
                 ELSE NoRet
       /\ calls' = r.calls
       /\ exit' = r.exit
       /\ pc' = IF r.exit = Running THEN "returned" ELSE "exited"

CallGetPrivateKeyFromBytes(data, ext, password, legacy) ==
    /\ pc = "idle"
    /\ \E r \in {GetPrivateKeyFromBytes(data, ext, password, legacy)} :
       /\ op' = [fn |-> "GetPrivateKeyFromBytes", data |-> data, ext |-> ext,
                 password |-> password]
       /\ ret' = IF r.exit = Running THEN [key |-> r.key, err |-> r.err] ELSE NoRet
       /\ calls' = r.calls
       /\ exit' = r.exit
       /\ pc' = IF r.exit = Running THEN "returned" ELSE "exited"

(* the caller takes the results; nothing of a call outlives it *)
Return ==
    /\ pc = "returned"
    /\ pc' = "idle"
    /\ op' = NoOp
    /\ ret' = NoRet
    /\ calls' = <<>>
    /\ exit' = Running

Next ==
    \/ \E z \in Passwords : CallKDF(z)
    \/ \E password \in Passwords, b \in Blobs : CallDecryptSm2Key(password, b)
    \/ \E d \in SmDatas, password \in {PwTest, PwHan} : CallDecodeSm2(d, password)
    \/ \E d \in Datas, ext \in Exts, password \in {PwTest, PwHan}, l \in LegacyOutcomes :
          CallGetPrivateKeyFromBytes(d, ext, password, l)
    \/ Return

Spec == Init /\ [][Next]_vars

(* ------------------------------------------------------------- claims *)

Called(fn) == pc # "idle" /\ op.fn = fn

Returned(fn) == pc = "returned" /\ op.fn = fn

(* the calls made to fn, in order *)
CallsTo(fn) == SelectSeq(calls, LAMBDA c : c.fn = fn)

IsFormatError(e) ==
    \/ e.type \in {"asn1.SyntaxError", "asn1.StructuralError"}
    \/ e = ErrorsNew(MsgTrailing)

(* C1: for a blob shorter than 32 or longer than 64 bytes DecryptSm2Key   *)
(* returns an empty result, the process goes on, and neither the KDF nor  *)
(* the cipher (nor anything else) is called                               *)
C1_OutOfRangeIsNil ==
    (Called("DecryptSm2Key")
     /\ (Len(op.encryptedData) < 32 \/ Len(op.encryptedData) > 64))
    => /\ pc = "returned"
       /\ exit = Running
       /\ ret.out = <<>>
       /\ calls = <<>>

C1_Witness ==
    /\ Returned("DecryptSm2Key")
    /\ Len(op.encryptedData) = 65
    /\ ret.out = <<>>

(* C2: no call of DecodeSm2 or DecryptSm2Key ends the process: every one  *)
(* of them returns to its caller                                          *)
C2_NeverTerminates ==
    (Called("DecodeSm2") \/ Called("DecryptSm2Key")) => pc = "returned" /\ exit = Running

(* C3: a buffer that is no container, or that goes on after the           *)
(* container, makes DecodeSm2 return a format error with no key and no    *)
(* certificate, having called nothing but the parser; a buffer that       *)
(* decodes does so no more with any one byte appended                     *)
C3_FormatErrorFirst ==
    Called("DecodeSm2") =>
        \A u \in {Unmarshal(op.smData)} :
            /\ (u.err # NoErr \/ Len(u.trailing) # 0 \/ op.smData \in Malformed)
               => /\ pc = "returned"
                  /\ IsFormatError(ret.err)
                  /\ ret.privateKey = NilPtr
                  /\ ret.certificate = NilPtr
                  /\ calls = <<[fn |-> "asn1.Unmarshal", in |-> op.smData]>>
            /\ (pc = "returned" /\ ret.err = NoErr)
               => \A x \in Byte :
                     \A r \in {DecodeSm2(Append(op.smData, x), op.password)} :
                        /\ r.exit = Running
                        /\ r.err = ErrorsNew(MsgTrailing)
                        /\ r.privateKey = NilPtr
                        /\ r.certificate = NilPtr
                        /\ Len(r.calls) = 1

C3_Witness ==
    /\ Returned("DecodeSm2")
    /\ ret.err = ErrorsNew(MsgTrailing)
    /\ \E d \in WellFormed :
          /\ op.smData = Append(d, 0)
          /\ DecodeSm2(d, op.password).err = NoErr
          /\ DecodeSm2(d, op.password).exit = Running

(* C4: a format hint other than ".sm2" and ".pfx" makes                   *)
(* GetPrivateKeyFromBytes return the unsupported-format error and a nil   *)
(* key, with no call made to any decoder, parser, KDF or cipher           *)
C4_UnknownHintUnsupported ==
    (Called("GetPrivateKeyFromBytes") /\ op.ext \notin {".sm2", ".pfx"})
    => /\ pc = "returned"
       /\ ret.key = NilIface
       /\ ret.err = ErrorsNew(MsgFileFormat)
       /\ calls = <<>>

C4_Witness ==
    /\ Returned("GetPrivateKeyFromBytes")
    /\ op.ext = ".xyz"
    /\ ret.err = ErrorsNew(MsgFileFormat)

(* the error DecodeSm2 returns when DecryptSm2Key yields nothing *)
NativeWrongPassword ==
    DecodeSm2(Container(<<1>>, PatternBlob(31), <<48, 3, AlgSm2, 9, 4>>, <<>>), PwTest).err

(* the native path of the call in op found the blob's length out of range *)
NativeDecryptEmpty ==
    /\ op.ext = ".sm2"
    /\ \E b \in {B64DecodeString(op.data)} :
          /\ b.err = NoErr
          /\ \E u \in {Unmarshal(b.out)} :
                /\ u.err = NoErr
                /\ Len(u.trailing) = 0
                /\ Len(DecryptSm2Key(op.password, u.sm.PrivContent).out) = 0

(* the error pkcs12.ToPEM gave in the call in op *)
LegacyErr == CallsTo("pkcs12.ToPEM")[1].out.err

(* C5: with the hint ".pfx", the legacy decoder's incorrect-password      *)
(* error comes back as the error of the native path for an empty          *)
(* decryption and any other legacy error comes back unchanged; the        *)
(* dispatcher returns that wrong-password error in these two cases only   *)
C5_WrongPasswordMirrored ==
    Returned("GetPrivateKeyFromBytes") =>
        /\ NativeWrongPassword # NoErr
        /\ (op.ext = ".pfx" /\ LegacyErr = ErrIncorrectPassword)
           => ret.err = NativeWrongPassword /\ ret.key = NilIface
        /\ (op.ext = ".pfx" /\ LegacyErr \notin {NoErr, ErrIncorrectPassword})
           => ret.err = LegacyErr /\ ret.key = NilIface
        /\ ret.err = NativeWrongPassword
           => \/ op.ext = ".pfx" /\ LegacyErr = ErrIncorrectPassword
              \/ NativeDecryptEmpty
        /\ NativeDecryptEmpty => ret.err = NativeWrongPassword

C5_Witness ==
    /\ Returned("GetPrivateKeyFromBytes")
    /\ op.ext = ".pfx"
    /\ LegacyErr = ErrIncorrectPassword
    /\ ret.err = ErrorsNew(MsgWrongPassword)

(* C6: DecodeSm2 returns a key and a certificate with a nil error, or a   *)
(* nil key and a nil certificate with an error; GetPrivateKeyFromBytes    *)
(* returns a key that is not nil with a nil error, or a nil key with an   *)
(* error                                                                  *)
C6_NoPartialSuccess ==
    /\ Returned("DecodeSm2")
       => \/ ret.privateKey # NilPtr /\ ret.certificate # NilPtr /\ ret.err = NoErr
          \/ ret.privateKey = NilPtr /\ ret.certificate = NilPtr /\ ret.err # NoErr
    /\ Returned("GetPrivateKeyFromBytes")
       => \/ ret.key # NilIface /\ ret.err = NoErr
          \/ ret.key = NilIface /\ ret.err # NoErr

(* the bytes the cipher gave back in the call in op *)
CipherOut == CallsTo("sm4.Sm4Cbc")[1].out

(* d is the value of buf read as a big-endian unsigned integer *)
IsBigEndianValue(d, buf) ==
    /\ Len(d) = 0 \/ d[1] # 0
    /\ \E k \in 0..Len(buf) : buf = Repeat(0, k) \o d

(* C7: when DecodeSm2 succeeds, the key's public key is the public key of *)
(* the certificate returned, which is the one parsed from the public-key  *)
(* record, and D is the big-endian value of the decrypted bytes; once the *)
(* certificate has been parsed no return is an error                      *)
C7_KeyBoundToCertificate ==
    Returned("DecodeSm2") =>
        /\ ret.err = NoErr
           => /\ ret.certificate
                    = ParseCertificate(CallsTo("x509.ParseCertificate")[1].in).cer
              /\ CallsTo("x509.ParseCertificate")[1].in
                    = Unmarshal(op.smData).sm.PubContent
              /\ ret.privateKey.PublicKey = ret.certificate.PublicKey
              /\ CallsTo("sm4.Sm4Cbc")[1].in = Unmarshal(op.smData).sm.PrivContent
              /\ IsBigEndianValue(ret.privateKey.D, CipherOut)
        /\ Len(CallsTo("x509.ParseCertificate")) > 0 => ret.err = NoErr

C7_Witness ==
    /\ Returned("DecodeSm2")
    /\ ret.err = NoErr
    /\ ret.privateKey.D = <<1>>
    /\ Len(CipherOut) = 32
    /\ ret.privateKey.PublicKey = [type |-> "*sm2.PublicKey", X |-> 9, Y |-> 4]

(* C8: DecryptSm2Key gives back the 32 bytes of a scalar that was         *)
(* encrypted under the key material of the same password                  *)
C8_RoundTrip ==
    Called("DecryptSm2Key") =>
        \A s \in Scalars :
            op.encryptedData = FixtureEncrypt(op.password, s)
            => pc = "returned" /\ ret.out = s

C8_Witness ==
    /\ Returned("DecryptSm2Key")
    /\ op.password = PwTest
    /\ op.encryptedData = FixtureEncrypt(PwTest, Repeat(1, 32))
    /\ ret.out = Repeat(1, 32)

(* C9: the cipher is given the blob itself when the blob is 32 or 48      *)
(* bytes long, and the base64 decoding of the blob at any other length    *)
(* from 32 to 64                                                          *)
C9_Base64DecodedCiphertext ==
    (Called("DecryptSm2Key")
     /\ Len(op.encryptedData) >= 32 /\ Len(op.encryptedData) <= 64)
    => CallsTo("sm4.Sm4Cbc")[1].in
          = IF Len(op.encryptedData) \in {32, 48} THEN op.encryptedData
            ELSE B64DecodeString(op.encryptedData).out

RECURSIVE Written(_)
(* the bytes written to the hash by a sequence of calls *)
Written(cs) ==
    IF Len(cs) = 0 THEN <<>>
    ELSE (IF Head(cs).fn = "sm3.Write" THEN Head(cs).in ELSE <<>>) \o Written(Tail(cs))

(* C10: KDF(z) is the digest of z followed by 00 00 00 01, hashed once;   *)
(* for a blob of 32 to 64 bytes DecryptSm2Key derives that digest from    *)
(* the password in the call itself and runs the cipher in the decrypting  *)
(* direction with its first 16 bytes as IV and the rest as key            *)
C10_KeyDerivation ==
    /\ Called("KDF")
       => /\ pc = "returned"
          /\ ret.out = Sm3Sum(op.z \o <<0, 0, 0, 1>>)
          /\ Written(calls) = op.z \o <<0, 0, 0, 1>>
          /\ Len(CallsTo("sm3.Sum")) = 1
          /\ CallsTo("sm3.Sum")[1].out = ret.out
    /\ (Called("DecryptSm2Key")
        /\ Len(op.encryptedData) >= 32 /\ Len(op.encryptedData) <= 64)
       => \A h \in {Sm3Sum(op.password \o <<0, 0, 0, 1>>)} :
             /\ Written(calls) = op.password \o <<0, 0, 0, 1>>
             /\ Len(CallsTo("sm3.Sum")) = 1
             /\ CallsTo("sm3.Sum")[1].out = h
             /\ Len(CallsTo("sm4.Init")) = 1
             /\ CallsTo("sm4.Init")[1].iv = SubSeq(h, 1, 16)
             /\ CallsTo("sm4.Init")[1].key = SubSeq(h, 17, Len(h))
             /\ Len(CallsTo("sm4.Sm4Cbc")) = 1
             /\ CallsTo("sm4.Sm4Cbc")[1].mode = FALSE

C10_Witness ==
    /\ Returned("DecryptSm2Key")
    /\ Len(op.encryptedData) = 48
    /\ op.password = PwHan
    /\ CallsTo("sm4.Init")[1].iv = SubSeq(Sm3Sum(<<229, 175, 134, 0, 0, 0, 1>>), 1, 16)

====
